---- MODULE Spec2Model ----
(***************************************************************************)
(* Model of src/worker.js: a Cloudflare Worker that authenticates a Ghost  *)
(* webhook (or a manual trigger token), purges a BunnyCDN pull zone and    *)
(* then deletes every Perma-Cache folder of the storage zone.              *)
(*                                                                         *)
(* Text is modelled as a sequence of one-character strings, so that the    *)
(* code's split / parseInt / template-literal steps are computed, not      *)
(* assumed.  JavaScript values that may be of several types (the return    *)
(* value of verifySignature, the value of cleanupResult) are records with  *)
(* a "type" field.                                                         *)
(***************************************************************************)
EXTENDS Integers, Sequences, FiniteSets, TLC

VARIABLES
    env,            \* the worker's global bindings (self.<NAME>), fixed at start
    request,        \* the request of the fetch event being handled
    now,            \* Date.now() as read by verifySignature
    pc,             \* position of the handler
    verifyCalls,    \* number of invocations of verifySignature
    bodyReads,      \* number of request.text() calls
    isValid,        \* the value verifySignature returned
    purge,          \* state of the purge fetch
    purgeCalls,     \* number of purge fetches issued
    list,           \* state of the listing fetch
    listCalls,      \* number of listing fetches issued
    folders,        \* the listing's folders (ObjectName of each)
    deletePromises, \* state of each deleteFolder(folder) promise
    deleteCalls,    \* DELETE fetches issued, as a sequence of ObjectNames
    cleanupResult,  \* the value cleanupPermaCacheFolders returned
    response        \* the promise handed to event.respondWith

vars == <<env, request, now, pc, verifyCalls, bodyReads, isValid, purge,
          purgeCalls, list, listCalls, folders, deletePromises, deleteCalls,
          cleanupResult, response>>

----------------------------------------------------------------------------
(* Bounds of the model *)

MaxFolders == 3

----------------------------------------------------------------------------
(* Program constants *)

HTTP_OK == 200
HTTP_FORBIDDEN == 403
HTTP_NOT_FOUND == 404
HTTP_SERVER_ERROR == 500

REQUIRED_ENV_VARS ==
    << "GHOST_WEBHOOK_SECRET", "BUNNY_PULLZONE_ID", "BUNNY_API_KEY",
       "BUNNY_STORAGE_ZONE_HOSTNAME", "BUNNY_STORAGE_ZONE_NAME",
       "BUNNY_STORAGE_ZONE_PASSWORD", "MANUAL_TRIGGER_TOKEN" >>

\* 5 * 60 * 1000 of verifySignature
ReplayWindow == 5 * 60 * 1000

----------------------------------------------------------------------------
(* JavaScript values *)

\* null (headers.get of an absent header) and undefined (a destructured
\* element that does not exist); neither is a sequence of characters.
Null == << "<null>" >>
Undefined == << "<undefined>" >>
\* a global binding that is not defined (varName in self is false)
Absent == << "<absent>" >>

\* String(v) as a template literal `${v}` computes it
ToStr(v) ==
    IF v = Undefined THEN << "u", "n", "d", "e", "f", "i", "n", "e", "d" >>
    ELSE IF v = Null THEN << "n", "u", "l", "l" >>
    ELSE v

\* !v for a value that is a string, null or undefined
Falsy(v) == v = Null \/ v = Undefined \/ v = << >>

BoolValue(b) == [type |-> "boolean", val |-> b]
NoValue == [type |-> "none"]

\* new Response(body, { status })
NewResponse(body, status) == [type |-> "Response", status |-> status, body |-> body]

\* the truthiness the `!isValid` test of handlePurgeFullCache applies:
\* false is falsy, true and every object (a Response) are truthy
Truthy(v) == IF v.type = "boolean" THEN v.val ELSE TRUE

----------------------------------------------------------------------------
(* String.prototype.split, destructuring, parseInt *)

\* whether sep occurs in s at position i
MatchAt(s, sep, i) ==
    /\ i + Len(sep) - 1 <= Len(s)
    /\ \A j \in 1..Len(sep) : s[i + j - 1] = sep[j]

\* the first position >= i at which sep occurs in s, 0 if none
RECURSIVE IndexOf(_, _, _)
IndexOf(s, sep, i) ==
    IF i + Len(sep) - 1 > Len(s) THEN 0
    ELSE IF MatchAt(s, sep, i) THEN i
    ELSE IndexOf(s, sep, i + 1)

\* s.split(sep) for a non-empty separator
RECURSIVE Split(_, _)
Split(s, sep) ==
    LET k == IndexOf(s, sep, 1) IN
    IF k = 0 THEN << s >>
    ELSE << SubSeq(s, 1, k - 1) >> \o Split(SubSeq(s, k + Len(sep), Len(s)), sep)

\* const [a, b] = arr : the i-th element, undefined past the end
Element(arr, i) == IF i <= Len(arr) THEN arr[i] ELSE Undefined

Digits == << "0", "1", "2", "3", "4", "5", "6", "7", "8", "9" >>
IsDigit(c) == \E d \in 1..10 : Digits[d] = c
DigitValue(c) == (CHOOSE d \in 1..10 : Digits[d] = c) - 1

\* the number of leading digits of s
RECURSIVE DigitPrefix(_)
DigitPrefix(s) ==
    IF s = << >> \/ ~IsDigit(Head(s)) THEN 0 ELSE 1 + DigitPrefix(Tail(s))

\* the value of a sequence of digits
RECURSIVE DigitsValue(_)
DigitsValue(s) ==
    IF s = << >> THEN 0
    ELSE 10 * DigitsValue(SubSeq(s, 1, Len(s) - 1)) + DigitValue(s[Len(s)])

RECURSIVE TrimStart(_)
TrimStart(s) == IF s # << >> /\ Head(s) = " " THEN TrimStart(Tail(s)) ELSE s

\* parseInt(v): leading white space, an optional sign, then the longest
\* prefix of decimal digits; NaN when there is no digit.  (No header of the
\* model starts with 0x, the one case in which parseInt reads base 16.)
ParseInt(v) ==
    LET s == TrimStart(ToStr(v))
        neg == s # << >> /\ Head(s) = "-"
        t == IF s # << >> /\ Head(s) \in {"-", "+"} THEN Tail(s) ELSE s
        n == DigitPrefix(t)
    IN  IF n = 0 THEN [nan |-> TRUE, val |-> 0]
        ELSE [nan |-> FALSE,
              val |-> IF neg THEN 0 - DigitsValue(SubSeq(t, 1, n))
                      ELSE DigitsValue(SubSeq(t, 1, n))]

Abs(x) == IF x < 0 THEN 0 - x ELSE x

\* OutsideWindow without Math.abs: only timestamps in the past are refused
OutsideWindowNoAbs(t, ts) ==
    LET p == ParseInt(ts) IN
    IF p.nan THEN FALSE ELSE t - p.val > ReplayWindow

\* Math.abs(Date.now() - parseInt(ts)) > 5 * 60 * 1000 ; a comparison with
\* NaN is false
OutsideWindow(t, ts) ==
    LET p == ParseInt(ts) IN
    IF p.nan THEN FALSE ELSE Abs(t - p.val) > ReplayWindow

\* n as decimal text, as a template literal `${n}` writes a number
RECURSIVE ToDecimal(_)
ToDecimal(n) ==
    IF n < 10 THEN << Digits[n + 1] >>
    ELSE ToDecimal(n \div 10) \o << Digits[(n % 10) + 1] >>

----------------------------------------------------------------------------
(* HMAC and its hex encoding *)

\* The characters of the model's texts, for TextEncoder.encode.
Alphabet ==
    << "0", "1", "2", "3", "4", "5", "6", "7", "8", "9",
       "a", "b", "c", "d", "e", "f", "h", "i", "k", "n", "o", "s", "t", "u",
       "x", "z", "=", ",", " ", "{", "}" >>
CharCode(c) == CHOOSE i \in 1..Len(Alphabet) : Alphabet[i] = c

RECURSIVE Mix(_, _, _)
Mix(h, m, s) ==
    IF s = << >> THEN h ELSE Mix((h * m + CharCode(Head(s)) + 1) % 256, m, Tail(s))

\* crypto.subtle.sign("HMAC", key, message): a keyed digest of the message.
\* SHA-256 itself is the platform's; the model keeps what the code relies on,
\* a deterministic function of (key, message) yielding bytes, here two.
HmacSign(key, message) ==
    << Mix(Mix(7, 31, key), 31, message), Mix(Mix(11, 37, key), 37, message) >>

HexDigits ==
    << "0", "1", "2", "3", "4", "5", "6", "7", "8", "9", "a", "b", "c", "d", "e", "f" >>

\* b.toString(16)
ToString16(b) ==
    IF b < 16 THEN << HexDigits[b + 1] >>
    ELSE << HexDigits[(b \div 16) + 1], HexDigits[(b % 16) + 1] >>

\* s.padStart(n, c)
RECURSIVE PadStart(_, _, _)
PadStart(s, n, c) == IF Len(s) >= n THEN s ELSE PadStart(<< c >> \o s, n, c)

\* Array.from(bytes).map((b) => b.toString(16).padStart(2, "0")).join("")
RECURSIVE HexEncode(_)
HexEncode(bytes) ==
    IF bytes = << >> THEN << >>
    ELSE PadStart(ToString16(Head(bytes)), 2, "0") \o HexEncode(Tail(bytes))

\* computedHash of verifySignature
ComputedHash(secret, body, ts) == HexEncode(HmacSign(secret, body \o ToStr(ts)))

----------------------------------------------------------------------------
(* Inputs: the worker's bindings, the requests, the outcomes of fetch *)

PurgePath == << "/purge-full-cache" >>
OtherPath == << "/" >>

Token == << "t", "o", "k" >>
Secret == << "k" >>

\* The bindings a deployment can have: all seven set (the webhook secret
\* possibly set to the empty string), or one of them not defined.
FullEnv(secret) ==
    [v \in {REQUIRED_ENV_VARS[i] : i \in 1..Len(REQUIRED_ENV_VARS)} |->
        IF v = "GHOST_WEBHOOK_SECRET" THEN secret
        ELSE IF v = "MANUAL_TRIGGER_TOKEN" THEN Token
        ELSE << "x" >>]
Envs ==
    {FullEnv(Secret), FullEnv(<< >>)}
    \cup {[FullEnv(Secret) EXCEPT ![REQUIRED_ENV_VARS[i]] = Absent] :
             i \in 1..Len(REQUIRED_ENV_VARS)}

Nows == {1000000}

Bodies == { << "{", "}" >>, << "x" >> }
SignKeys == { Secret, << "z" >> }
\* timestamps as the header carries them: now, exactly 5 minutes before
\* now, 1 ms more than 5 minutes before now, 1 ms more than 5 minutes after now,
\* and a text that is no integer
TsTexts ==
    { ToDecimal(1000000), ToDecimal(700000), ToDecimal(699999),
      ToDecimal(1300001), << "a", "b", "c" >> }

Sha256Eq == << "s", "h", "a", "2", "5", "6", "=" >>
CommaSpace == << ",", " " >>

\* the header Ghost sends: sha256=<hex of HMAC(key, body + ts)>, t=<ts>
SignedHeader(key, body, ts) ==
    Sha256Eq \o ComputedHash(key, body, ts) \o CommaSpace \o << "t", "=" >> \o ts

SignatureHeaders ==
    {SignedHeader(k, b, ts) : k \in SignKeys, b \in Bodies, ts \in TsTexts}
    \cup { Null,                                     \* no header
           << >>,                                    \* empty header
           Sha256Eq \o << "a", "b" >>,               \* no ", " separator
           \* hash part without "="
           << "a", "b" >> \o CommaSpace \o << "t", "=" >> \o ToDecimal(1000000) }
    \* timestamp part without "=": ts is undefined
    \cup {Sha256Eq \o ComputedHash(k, b, Undefined) \o CommaSpace \o << "t" >> :
             k \in SignKeys, b \in Bodies}

TokenHeaders == { Null, Token, << "b", "a", "d" >> }

Requests ==
    [method : {"POST", "GET"}, pathname : {PurgePath, OtherPath},
     token : TokenHeaders, signature : SignatureHeaders, body : Bodies]

NoRequest ==
    [method |-> "", pathname |-> << >>, token |-> Null, signature |-> Null,
     body |-> << >>]

\* what a fetch can do: resolve with a status, or reject (raised)
FetchOutcomes ==
    { [raised |-> FALSE, status |-> 200], [raised |-> FALSE, status |-> 503],
      [raised |-> TRUE, status |-> 0] }

\* response.ok
Ok(o) == ~o.raised /\ o.status >= 200 /\ o.status <= 299

NoFetch == [state |-> "none", raised |-> FALSE, status |-> 0]
InFlight == [state |-> "inflight", raised |-> FALSE, status |-> 0]
Settled(o) == [state |-> "settled", raised |-> o.raised, status |-> o.status]

\* the listing's JSON array, n folders
Listing(n) == [i \in 1..n |-> [ObjectName |-> << "f" >> \o ToDecimal(i)]]

----------------------------------------------------------------------------
(* The functions of worker.js *)

NetworkError == << "Network connection lost." >>
SplitOfUndefined == << "Cannot read properties of undefined (reading 'split')" >>

\* handleError(error, customMessage): a Response object, status 500
handleError(message) ==
    NewResponse(<< "An error occurred: " >> \o message, HTTP_SERVER_ERROR)

\* validateEnvironmentVariables over the six names of the legacy list, which
\* has no MANUAL_TRIGGER_TOKEN
MissingEnvVarsLegacy(e) ==
    SelectSeq(SubSeq(REQUIRED_ENV_VARS, 1, 6), LAMBDA v : e[v] = Absent)

\* validateEnvironmentVariables: the names it would throw for, in order
MissingEnvVars(e) ==
    SelectSeq(REQUIRED_ENV_VARS, LAMBDA v : e[v] = Absent)

\* TokenMatches with the comparison inverted
TokenMatchesInverted(req, e) == req.token # e["MANUAL_TRIGGER_TOKEN"]

\* IsPurgePath sending every path to handlePurgeFullCache
IsPurgePathAlways(pathname) == TRUE

\* handleRequest: pathname === "/purge-full-cache"
IsPurgePath(pathname) == pathname = PurgePath

\* manualTriggerToken !== self.MANUAL_TRIGGER_TOKEN, negated
TokenMatches(req, e) == req.token = e["MANUAL_TRIGGER_TOKEN"]

\* the catch clause of verifySignature: what it returns for a thrown error
VerifyCatch(message) == handleError(message)

\* verifySignature reading the request body as its first statement
verifySignatureReadsFirst(req, t, e) ==
    LET signatureHeader == req.signature IN
    IF Falsy(signatureHeader) THEN [ret |-> BoolValue(FALSE), reads |-> 1]
    ELSE
      LET parts == Split(signatureHeader, CommaSpace)
          sigHash == Element(parts, 1)
          timeStamp == Element(parts, 2)
          hash == Element(Split(sigHash, << "=" >>), 2)
      IN
      IF timeStamp = Undefined
      THEN [ret |-> VerifyCatch(SplitOfUndefined), reads |-> 1]
      ELSE
        LET ts == Element(Split(timeStamp, << "=" >>), 2)
            secret == e["GHOST_WEBHOOK_SECRET"]
        IN
        IF OutsideWindow(t, ts) THEN [ret |-> BoolValue(FALSE), reads |-> 1]
        ELSE IF Falsy(secret) \/ secret = Absent
        THEN [ret |-> BoolValue(FALSE), reads |-> 1]
        ELSE [ret |-> BoolValue(ComputedHash(secret, req.body, ts) = hash),
              reads |-> 1]

\* verifySignature(request): the value it resolves to, and how many times
\* it read the request body
verifySignature(req, t, e) ==
    LET signatureHeader == req.signature IN
    IF Falsy(signatureHeader) THEN [ret |-> BoolValue(FALSE), reads |-> 0]
    ELSE
      LET parts == Split(signatureHeader, CommaSpace)
          sigHash == Element(parts, 1)
          timeStamp == Element(parts, 2)
          hash == Element(Split(sigHash, << "=" >>), 2)
      IN
      \* timeStamp.split("=") throws a TypeError when timeStamp is undefined
      IF timeStamp = Undefined
      THEN [ret |-> VerifyCatch(SplitOfUndefined), reads |-> 0]
      ELSE
        LET ts == Element(Split(timeStamp, << "=" >>), 2)
            secret == e["GHOST_WEBHOOK_SECRET"]
        IN
        IF OutsideWindow(t, ts) THEN [ret |-> BoolValue(FALSE), reads |-> 0]
        ELSE IF Falsy(secret) \/ secret = Absent
        THEN [ret |-> BoolValue(FALSE), reads |-> 0]
        ELSE [ret |-> BoolValue(ComputedHash(secret, req.body, ts) = hash),
              reads |-> 1]

\* PurgeThrows without the test of purgeResponse.ok
PurgeThrowsOnRaiseOnly(o) == o.raised

\* purgeBunnyCDNCache after its fetch settled: whether it throws
PurgeThrows(o) == o.raised \/ ~Ok(o)
PurgeError(o) ==
    IF o.raised THEN NetworkError
    ELSE << "Failed to purge cache. Status: " >> \o ToDecimal(o.status)

\* ListThrows without the test of listResponse.ok
ListThrowsOnRaiseOnly(o) == o.raised

\* listPermaCacheFolders after its fetch settled
ListThrows(o) == o.raised \/ ~Ok(o)
ListError(o) ==
    IF o.raised THEN NetworkError
    ELSE << "Failed to list Perma-Cache folders. Status: " >> \o ToDecimal(o.status)

\* deleteFolder(folder) after its fetch settled: the state of its promise
deleteFolder(o) ==
    IF o.raised THEN "rejected" ELSE IF Ok(o) THEN "true" ELSE "false"

\* IssuedDeletes leaving out the first folder
IssuedDeletesSkipFirst(fs) == [i \in 1..(Len(fs) - 1) |-> fs[i + 1].ObjectName]

\* folders.map(deleteFolder): each call of deleteFolder issues its DELETE
\* before its first await, so one fetch per folder is issued, in order
IssuedDeletes(fs) == [i \in 1..Len(fs) |-> fs[i].ObjectName]

\* some promise of the array has rejected
HasRejected(promises) == \E i \in 1..Len(promises) : promises[i] = "rejected"

\* Promise.all(deletePromises)
PromiseAll(promises) ==
    IF HasRejected(promises) THEN "rejected"
    ELSE IF \A i \in 1..Len(promises) : promises[i] # "pending" THEN "fulfilled"
    ELSE "pending"

Count(promises, v) == Cardinality({i \in 1..Len(promises) : promises[i] = v})

StringValue(text) == [type |-> "string", str |-> text]

TallyText(total, deleted, failed) ==
    << "Cleanup completed. ", "Total folders: " >> \o ToDecimal(total)
    \o << ", Deleted: " >> \o ToDecimal(deleted)
    \o << ", Failed: " >> \o ToDecimal(failed)

\* the catch clause of cleanupPermaCacheFolders
CleanupCatch(message) == handleError(message)

\* CleanupReturn counting every result as deleted (results not filtered)
CleanupReturnCountsAll(fs, promises) ==
    IF HasRejected(promises) THEN handleError(<< "Network connection lost." >>)
    ELSE [type |-> "string",
          str |-> << "Cleanup completed. ", "Total folders: " >> \o ToDecimal(Len(fs))
                  \o << ", Deleted: " >> \o ToDecimal(Len(promises))
                  \o << ", Failed: " >> \o ToDecimal(0)]

\* CleanupReturn throwing, into its own catch clause, for an empty listing
CleanupReturnEmptyThrows(fs, promises) ==
    IF HasRejected(promises) THEN handleError(<< "Network connection lost." >>)
    ELSE IF fs = << >> THEN handleError(<< "No Perma-Cache folders found" >>)
    ELSE [type |-> "string",
          str |-> << "Cleanup completed. ", "Total folders: " >> \o ToDecimal(Len(fs))
                  \o << ", Deleted: " >>
                  \o ToDecimal(Cardinality({i \in 1..Len(promises) : promises[i] = "true"}))
                  \o << ", Failed: " >>
                  \o ToDecimal(Cardinality({i \in 1..Len(promises) : promises[i] # "true"}))]

\* cleanupPermaCacheFolders once Promise.all has settled: its return value
CleanupReturn(fs, promises) ==
    IF PromiseAll(promises) = "rejected" THEN CleanupCatch(NetworkError)
    ELSE
      LET deletedCount == Count(promises, "true")
          failedCount == Len(promises) - deletedCount
      IN StringValue(TallyText(Len(fs), deletedCount, failedCount))

\* `${v}` for a value that is a string or an object
TemplateStr(v) ==
    IF v.type = "string" THEN v.str ELSE << "[object Response]" >>

\* the status of a Response made without one
DefaultStatus == 200

\* the last statement of handlePurgeFullCache
SuccessResponse(result) ==
    NewResponse(<< "Full cache purge initiated successfully. ", "Cleanup result: " >>
                \o TemplateStr(result), DefaultStatus)

Pending == [state |-> "pending"]
Fulfilled(r) == [state |-> "fulfilled", value |-> r]
Rejected(message) == [state |-> "rejected", error |-> message]

\* handleRequest's `return handlePurgeFullCache(request)`: the promise is
\* returned, not awaited, inside the try block, so the promise of
\* handleRequest takes the state of the returned one; the catch clause is
\* not entered when it rejects.
ReturnedFromTry(promise) == promise

----------------------------------------------------------------------------
(* The cleanup of the legacy variant: one function, a sequential loop *)

\* the state of the loop: the two counters, the DELETE fetches issued so
\* far, and the error caught, if a fetch raised
LegacyLoopStart ==
    [deletedCount |-> 0, failedCount |-> 0, calls |-> << >>,
     thrown |-> FALSE, error |-> << >>]

\* LegacyIteration with a non-success status left uncounted
LegacyIterationDropsFailed(st, folder, o) ==
    LET issued == [st EXCEPT !.calls = Append(st.calls, folder.ObjectName)]
    IN IF o.raised THEN [issued EXCEPT !.thrown = TRUE, !.error = NetworkError]
       ELSE IF Ok(o) THEN [issued EXCEPT !.deletedCount = st.deletedCount + 1]
       ELSE issued

\* one iteration of `for (const folder of folders)`: the DELETE is issued
\* and awaited; a raise leaves the loop for the catch clause, a success
\* status counts as deleted, any other as failed
LegacyIteration(st, folder, o) ==
    LET issued == [st EXCEPT !.calls = Append(st.calls, folder.ObjectName)]
    IN IF o.raised THEN [issued EXCEPT !.thrown = TRUE, !.error = NetworkError]
       ELSE IF Ok(o) THEN [issued EXCEPT !.deletedCount = st.deletedCount + 1]
       ELSE [issued EXCEPT !.failedCount = st.failedCount + 1]

\* the loop from folder i on; outs[i] is the outcome of the fetch for
\* folder i, read only if the loop reaches it
RECURSIVE LegacyLoop(_, _, _, _)
LegacyLoop(st, fs, outs, i) ==
    IF st.thrown \/ i > Len(fs) THEN st
    ELSE LegacyLoop(LegacyIteration(st, fs[i], outs[i]), fs, outs, i + 1)

\* the text returned after the loop
LegacyTallyText(total, deleted, failed) ==
    << "Cleanup completed. ", "Total folders: " >> \o ToDecimal(total)
    \o << ", Deleted: " >> \o ToDecimal(deleted)
    \o << ", Failed: " >> \o ToDecimal(failed)

\* the catch clause: a string, not a Response
LegacyCatch(message) == StringValue(<< "Error during cleanup: " >> \o message)

\* cleanupPermaCacheFolders of the legacy variant, for a listing fetch that
\* settled with lo and an array fs, and delete fetches that settle with outs:
\* its return value and the DELETE fetches it issued
LegacyCleanup(lo, fs, outs) ==
    IF lo.raised \/ ~Ok(lo)
    THEN [result |-> LegacyCatch(ListError(lo)), calls |-> << >>]
    ELSE
      LET end == LegacyLoop(LegacyLoopStart, fs, outs, 1)
      IN [result |-> IF end.thrown THEN LegacyCatch(end.error)
                     ELSE StringValue(LegacyTallyText(Len(fs), end.deletedCount,
                                                      end.failedCount)),
          calls |-> end.calls]

----------------------------------------------------------------------------
(* The state machine: one fetch event, from its arrival to its response    *)
(* and the settling of every fetch it issued                               *)

Init ==
    /\ env \in Envs
    /\ request = NoRequest
    /\ now = 0
    /\ pc = "idle"
    /\ verifyCalls = 0
    /\ bodyReads = 0
    /\ isValid = NoValue
    /\ purge = NoFetch
    /\ purgeCalls = 0
    /\ list = NoFetch
    /\ listCalls = 0
    /\ folders = << >>
    /\ deletePromises = << >>
    /\ deleteCalls = << >>
    /\ cleanupResult = NoValue
    /\ response = Pending

\* addEventListener("fetch", ...): event.respondWith(handleRequest(event))
FetchEvent(req) ==
    /\ pc = "idle"
    /\ request' = req
    /\ pc' = "handleRequest"
    /\ UNCHANGED <<env, now, verifyCalls, bodyReads, isValid, purge, purgeCalls,
                   list, listCalls, folders, deletePromises, deleteCalls,
                   cleanupResult, response>>

\* handleRequest up to its return: validateEnvironmentVariables, whose throw
\* the catch clause turns into handleError's Response; then the routing
HandleRequest ==
    /\ pc = "handleRequest"
    /\ LET missing == MissingEnvVars(env) IN
       IF missing # << >>
       THEN /\ response' = Fulfilled(handleError(
                   << "Missing required environment variable: ", Head(missing) >>))
            /\ pc' = "done"
       ELSE IF IsPurgePath(request.pathname)
       THEN /\ pc' = "handlePurgeFullCache"
            /\ UNCHANGED response
       ELSE /\ response' = Fulfilled(NewResponse(<< "Not Found" >>, HTTP_NOT_FOUND))
            /\ pc' = "done"
    /\ UNCHANGED <<env, request, now, verifyCalls, bodyReads, isValid, purge,
                   purgeCalls, list, listCalls, folders, deletePromises,
                   deleteCalls, cleanupResult>>

\* handlePurgeFullCache: the manual trigger token test
HandlePurgeFullCache ==
    /\ pc = "handlePurgeFullCache"
    /\ pc' = IF TokenMatches(request, env) THEN "purgeBunnyCDNCache"
             ELSE "verifySignature"
    /\ UNCHANGED <<env, request, now, verifyCalls, bodyReads, isValid, purge,
                   purgeCalls, list, listCalls, folders, deletePromises,
                   deleteCalls, cleanupResult, response>>

\* await verifySignature(request)
VerifySignature(t) ==
    /\ pc = "verifySignature"
    /\ now' = t
    /\ LET r == verifySignature(request, t, env) IN
       /\ isValid' = r.ret
       /\ bodyReads' = bodyReads + r.reads
    /\ verifyCalls' = verifyCalls + 1
    /\ pc' = "checkValid"
    /\ UNCHANGED <<env, request, purge, purgeCalls, list, listCalls, folders,
                   deletePromises, deleteCalls, cleanupResult, response>>

\* handlePurgeFullCache: if (!isValid) return new Response("Invalid signature", 403)
CheckValid ==
    /\ pc = "checkValid"
    /\ IF ~Truthy(isValid)
       THEN /\ response' = ReturnedFromTry(Fulfilled(
                   NewResponse(<< "Invalid signature" >>, HTTP_FORBIDDEN)))
            /\ pc' = "done"
       ELSE /\ pc' = "purgeBunnyCDNCache"
            /\ UNCHANGED response
    /\ UNCHANGED <<env, request, now, verifyCalls, bodyReads, isValid, purge,
                   purgeCalls, list, listCalls, folders, deletePromises,
                   deleteCalls, cleanupResult>>

\* purgeBunnyCDNCache: the POST to .../purgeCache is issued
PurgeBunnyCDNCache ==
    /\ pc = "purgeBunnyCDNCache"
    /\ purge' = InFlight
    /\ purgeCalls' = purgeCalls + 1
    /\ pc' = "awaitPurge"
    /\ UNCHANGED <<env, request, now, verifyCalls, bodyReads, isValid, list,
                   listCalls, folders, deletePromises, deleteCalls,
                   cleanupResult, response>>

\* the purge fetch settles; purgeBunnyCDNCache returns or throws, and a throw
\* rejects handlePurgeFullCache's promise
PurgeSettles(o) ==
    /\ pc = "awaitPurge"
    /\ purge' = Settled(o)
    /\ IF PurgeThrows(o)
       THEN /\ response' = ReturnedFromTry(Rejected(PurgeError(o)))
            /\ pc' = "done"
       ELSE /\ pc' = "cleanupPermaCacheFolders"
            /\ UNCHANGED response
    /\ UNCHANGED <<env, request, now, verifyCalls, bodyReads, isValid,
                   purgeCalls, list, listCalls, folders, deletePromises,
                   deleteCalls, cleanupResult>>

\* cleanupPermaCacheFolders: listPermaCacheFolders issues the GET
ListPermaCacheFolders ==
    /\ pc = "cleanupPermaCacheFolders"
    /\ list' = InFlight
    /\ listCalls' = listCalls + 1
    /\ pc' = "awaitList"
    /\ UNCHANGED <<env, request, now, verifyCalls, bodyReads, isValid, purge,
                   purgeCalls, folders, deletePromises, deleteCalls,
                   cleanupResult, response>>

\* the listing fetch settles.  On a throw the catch clause of
\* cleanupPermaCacheFolders returns handleError's Response and
\* handlePurgeFullCache answers.  Otherwise folders.map(deleteFolder) issues
\* one DELETE per folder; Promise.all of no promise is fulfilled at once.
ListSettles(o, n) ==
    /\ pc = "awaitList"
    /\ list' = Settled(o)
    /\ IF ListThrows(o)
       THEN /\ cleanupResult' = CleanupCatch(ListError(o))
            /\ response' = ReturnedFromTry(Fulfilled(SuccessResponse(cleanupResult')))
            /\ pc' = "done"
            /\ UNCHANGED <<folders, deletePromises, deleteCalls>>
       ELSE /\ folders' = Listing(n)
            /\ deleteCalls' = IssuedDeletes(folders')
            /\ deletePromises' = [i \in 1..n |-> "pending"]
            /\ IF n = 0
               THEN /\ cleanupResult' = CleanupReturn(folders', deletePromises')
                    /\ response' =
                          ReturnedFromTry(Fulfilled(SuccessResponse(cleanupResult')))
                    /\ pc' = "done"
               ELSE /\ pc' = "awaitDeletes"
                    /\ UNCHANGED <<cleanupResult, response>>
    /\ UNCHANGED <<env, request, now, verifyCalls, bodyReads, isValid, purge,
                   purgeCalls, listCalls>>

\* the DELETE of folder i settles and deleteFolder's promise with it; when
\* that settles Promise.all, cleanupPermaCacheFolders returns and
\* handlePurgeFullCache answers.  A deletion still in flight after the
\* answer settles later, with nobody awaiting it.
DeleteSettles(i, o) ==
    /\ i \in 1..Len(deletePromises)
    /\ deletePromises[i] = "pending"
    /\ deletePromises' = [deletePromises EXCEPT ![i] = deleteFolder(o)]
    /\ IF pc = "awaitDeletes" /\ PromiseAll(deletePromises') # "pending"
       THEN /\ cleanupResult' = CleanupReturn(folders, deletePromises')
            /\ response' = ReturnedFromTry(Fulfilled(SuccessResponse(cleanupResult')))
            /\ pc' = "done"
       ELSE UNCHANGED <<cleanupResult, response, pc>>
    /\ UNCHANGED <<env, request, now, verifyCalls, bodyReads, isValid, purge,
                   purgeCalls, list, listCalls, folders, deleteCalls>>

Next ==
    \/ \E req \in Requests : FetchEvent(req)
    \/ HandleRequest
    \/ HandlePurgeFullCache
    \/ \E t \in Nows : VerifySignature(t)
    \/ CheckValid
    \/ PurgeBunnyCDNCache
    \/ \E o \in FetchOutcomes : PurgeSettles(o)
    \/ ListPermaCacheFolders
    \/ \E o \in FetchOutcomes, n \in 0..MaxFolders : ListSettles(o, n)
    \/ \E i \in 1..MaxFolders, o \in FetchOutcomes : DeleteSettles(i, o)

Spec == Init /\ [][Next]_vars

----------------------------------------------------------------------------
(* Vocabulary of the properties *)

EnvComplete == MissingEnvVars(env) = << >>

\* a request to /purge-full-cache that handlePurgeFullCache receives
PurgeRequested == pc # "idle" /\ request.pathname = PurgePath /\ EnvComplete

\* the manualtriggertoken header equals the configured MANUAL_TRIGGER_TOKEN
HasBypassToken == request.token = env["MANUAL_TRIGGER_TOKEN"]

\* no purge, list or delete call has been issued
NoCdnCall == purgeCalls = 0 /\ listCalls = 0 /\ deleteCalls = << >>

Answered(status, body) ==
    /\ response.state = "fulfilled"
    /\ response.value.status = status
    /\ response.value.body = body

Denied403 == Answered(HTTP_FORBIDDEN, << "Invalid signature" >>)

\* the header is absent, empty, or has no ", " between a hash part and a
\* timestamp part
MalformedHeader(h) == h = Null \/ h = << >> \/ IndexOf(h, CommaSpace, 1) = 0

AllDigits(s) == s # << >> /\ \A i \in 1..Len(s) : IsDigit(s[i])

\* the header is <hash part>, t=<decimal integer>
IntegerTimestampHeader(h) ==
    /\ ~MalformedHeader(h)
    /\ LET tpart == Split(h, CommaSpace)[2] IN
       /\ Len(tpart) > 2
       /\ SubSeq(tpart, 1, 2) = << "t", "=" >>
       /\ AllDigits(SubSeq(tpart, 3, Len(tpart)))

HeaderTimestamp(h) ==
    LET tpart == Split(h, CommaSpace)[2] IN DigitsValue(SubSeq(tpart, 3, Len(tpart)))

ListedOk == list.state = "settled" /\ Ok(list)

NoneInFlight == \A i \in 1..Len(deletePromises) : deletePromises[i] # "pending"

----------------------------------------------------------------------------
(* C1..C10 *)

\* C1: with the configuration complete, a request to /purge-full-cache
\* without a matching manual trigger token whose X-Ghost-Signature header is
\* absent, empty or has no ", " separator never causes a purge, list or
\* delete call, and once handled its response is 403 "Invalid signature".
\* (Stated as the claim states it; the code violates it.)
C1_MalformedHeaderDenied ==
    (PurgeRequested /\ ~HasBypassToken
        /\ MalformedHeader(request.signature))
    => /\ NoCdnCall
       /\ pc = "done" => Denied403

\* C2: with the configuration complete, a request to /purge-full-cache
\* without a matching token whose header carries an integer timestamp more
\* than 300000 ms away from Date.now(), in the past or in the future, is
\* denied: no CDN call is ever issued and the response is 403, whatever the
\* header's hash.
C2_Case ==
    /\ PurgeRequested /\ ~HasBypassToken
    /\ verifyCalls > 0
    /\ IntegerTimestampHeader(request.signature)
    /\ Abs(now - HeaderTimestamp(request.signature)) > 300000

C2_StaleTimestampDenied ==
    C2_Case => /\ NoCdnCall
               /\ isValid = BoolValue(FALSE)
               /\ pc \in {"checkValid", "done"}
               /\ pc = "done" => Denied403

\* C2 witness: a request signed with the configured secret over its own
\* body and a timestamp 300001 ms in the future has been answered.
C2_Witness ==
    /\ C2_Case /\ pc = "done"
    /\ env["GHOST_WEBHOOK_SECRET"] = Secret
    /\ request.signature = SignedHeader(Secret, request.body, ToDecimal(1300001))

\* C3: with the configuration complete, a request to /purge-full-cache whose
\* manualtriggertoken header equals MANUAL_TRIGGER_TOKEN is allowed whatever
\* its signature header is: verifySignature is never invoked, the body is
\* never read, the response is never 403, and the handler leaves the
\* authorization step only towards the purge call, which has been issued
\* by the time the request is answered.
C3_Case == PurgeRequested /\ HasBypassToken

C3_BypassAllows ==
    C3_Case => /\ verifyCalls = 0
               /\ bodyReads = 0
               /\ pc \notin {"verifySignature", "checkValid"}
               /\ ~Denied403
               /\ pc \notin {"handleRequest", "handlePurgeFullCache",
                             "purgeBunnyCDNCache"} => purgeCalls = 1

\* C3 witness: a bypass request with a header that has no ", " separator
\* has had its purge call issued.
C3_Witness ==
    /\ C3_Case /\ purgeCalls = 1
    /\ request.signature = Sha256Eq \o << "a", "b" >>

\* C4: with the configuration complete and no matching token, a purge call
\* is issued only if verifySignature returned the boolean true, and every
\* other outcome of verifySignature is answered 403 with no CDN call.
\* (Stated as the claim states it; the code violates it.)
C4_PurgeIffSignatureTrue ==
    (PurgeRequested /\ ~HasBypassToken)
    => /\ purgeCalls > 0 => (isValid.type = "boolean" /\ isValid.val)
       /\ (pc = "done" /\ ~(isValid.type = "boolean" /\ isValid.val))
             => (Denied403 /\ NoCdnCall)

\* C5: the listing call and every delete call are issued only after the one
\* purge call of the request has settled with a success status; after a
\* purge that returned a non-success status or raised there is no list and
\* no delete call; no cleanup call is in flight while the purge call is.
C5_CleanupOnlyAfterPurgeOk ==
    /\ purgeCalls <= 1
    /\ (listCalls > 0 \/ list.state # "none" \/ deleteCalls # << >>
           \/ cleanupResult.type # "none")
          => (purgeCalls = 1 /\ purge.state = "settled" /\ Ok(purge))
    /\ (purge.state = "settled" /\ ~Ok(purge))
          => (listCalls = 0 /\ deleteCalls = << >> /\ pc = "done")
    /\ purge.state = "inflight" => (list.state = "none" /\ deletePromises = << >>)

\* C5 witness: the purge call returned a non-success status and the request
\* has been handled to its end.
C5_Witness ==
    purge.state = "settled" /\ ~purge.raised /\ ~Ok(purge) /\ pc = "done"

\* C6: when the purge call of an authorized request returns a non-success
\* status, the promise handed to respondWith never rejects and the response
\* is 500 "An error occurred: <message>".
\* (Stated as the claim states it; the code violates it.)
C6_PurgeFailureAnswered500 ==
    (purge.state = "settled" /\ ~purge.raised /\ ~Ok(purge))
    => /\ response.state # "rejected"
       /\ pc = "done" =>
             Answered(HTTP_SERVER_ERROR,
                      << "An error occurred: " >> \o PurgeError(purge))

\* C7: when the listing returned N folders and every deletion has settled
\* with a status, K of them non-success, cleanupPermaCacheFolders has
\* returned the tally total = N, deleted = N - K, failed = K, and the
\* response is 200 with a body containing
\* "Total folders: N, Deleted: N-K, Failed: K", in every order of settling.
C7_Case ==
    /\ ListedOk
    /\ \A i \in 1..Len(deletePromises) : deletePromises[i] \in {"true", "false"}

C7_Tally ==
    C7_Case =>
      LET N == Len(folders)
          K == Count(deletePromises, "false")
          text == << "Total folders: " >> \o ToDecimal(N) \o << ", Deleted: " >>
                  \o ToDecimal(N - K) \o << ", Failed: " >> \o ToDecimal(K)
      IN /\ Len(deletePromises) = N
         /\ cleanupResult.type = "string"
         /\ cleanupResult.str = << "Cleanup completed. " >> \o text
         /\ response.state = "fulfilled"
         /\ response.value.status = 200
         /\ IndexOf(response.value.body, text, 1) > 0

\* C7 witness: three folders listed, two deleted and the deletion of the
\* second one answered with a non-success status.
C7_Witness ==
    /\ C7_Case
    /\ deletePromises = << "true", "false", "true" >>

\* C8: once the listing has succeeded with N folders, cleanupPermaCacheFolders
\* returns a tally with total = N, never an error, also when a deletion
\* raises.  (Stated as the claim states it; the code violates it.)
C8_RaisingDeletionCounted ==
    (ListedOk /\ cleanupResult.type # "none")
    => /\ cleanupResult.type = "string"
       /\ \E d \in 0..Len(folders) :
             cleanupResult.str = TallyText(Len(folders), d, Len(folders) - d)

\* C9: the result of cleanupPermaCacheFolders and the response exist only
\* when no dispatched deletion is still in flight.
\* (Stated as the claim states it; the code violates it.)
C9_JoinAllBarrier ==
    (cleanupResult.type # "none" \/ response.state # "pending") => NoneInFlight

\* C10: when the purge succeeded and the listing call returned a non-success
\* status, the response is 500 "An error occurred: <message>", never 200.
\* (Stated as the claim states it; the code violates it.)
C10_ListFailureAnswered500 ==
    (list.state = "settled" /\ ~list.raised /\ ~Ok(list) /\ pc = "done")
    => Answered(HTTP_SERVER_ERROR, << "An error occurred: " >> \o ListError(list))

----------------------------------------------------------------------------
(* C11..C20 *)

\* some required binding is not defined
AnyBindingAbsent == \E i \in 1..Len(REQUIRED_ENV_VARS) : env[REQUIRED_ENV_VARS[i]] = Absent

ListedNames == {folders[j].ObjectName : j \in 1..Len(folders)}

\* C11: delete calls exist only once the listing call of the request has
\* returned a success status, and only for ObjectNames of that listing;
\* while the listing is in flight, and after it returned a non-success
\* status or raised, there is no delete call.
C11_DeletesOnlyFromListing ==
    /\ deleteCalls # << >> =>
          /\ listCalls = 1 /\ ListedOk
          /\ \A i \in 1..Len(deleteCalls) : deleteCalls[i] \in ListedNames
    /\ (list.state = "settled" /\ ~Ok(list)) =>
          (deleteCalls = << >> /\ deletePromises = << >>)
    /\ list.state = "inflight" => deleteCalls = << >>

\* C11 witness: the listing call returned a non-success status and the
\* request has been answered.
C11_Witness ==
    list.state = "settled" /\ ~list.raised /\ ~Ok(list) /\ pc = "done"

NonIntegerTimestampHeader(h) == ~MalformedHeader(h) /\ ~IntegerTimestampHeader(h)

\* C13: with the configuration complete, a request without a matching token
\* whose header's timestamp part is not a valid integer is denied, whatever
\* its hash: no CDN call, and 403 once handled.
\* (Stated as the claim states it; the code violates it.)
C13_NonIntegerTimestampDenied ==
    (PurgeRequested /\ ~HasBypassToken
        /\ NonIntegerTimestampHeader(request.signature))
    => /\ NoCdnCall
       /\ pc = "done" => Denied403

\* C14: the handling of a request never ends in a rejected promise, and when
\* it has ended there is a response whose status is 200, 403, 404 or 500.
\* (Stated as the claim states it; the code violates it.)
C14_AlwaysAnswered ==
    /\ response.state # "rejected"
    /\ pc = "done" =>
          /\ response.state = "fulfilled"
          /\ response.value.status \in {200, 403, 404, 500}

\* C15: a request whose method is not POST never causes a purge, list or
\* delete call.  (Stated as the claim states it; the code violates it.)
C15_OnlyPost ==
    (pc # "idle" /\ request.method # "POST") => NoCdnCall

\* C16, as claimed: a request whose path is not /purge-full-cache is answered
\* 404 "Not Found" in every configuration state, with no outbound call and
\* no read of the body.
C16_OtherPath404Always ==
    (pc # "idle" /\ request.pathname = OtherPath)
    => /\ NoCdnCall /\ bodyReads = 0
       /\ pc = "done" => Answered(404, << "Not Found" >>)

\* C16, amended: a request whose path is not /purge-full-cache causes no
\* outbound call and no read of the body in every configuration state; it
\* is answered 404 "Not Found" when the seven required bindings are
\* defined, and 500 when one of them is not.
C16_OtherPath404WhenConfigured ==
    (pc # "idle" /\ request.pathname = OtherPath)
    => /\ NoCdnCall /\ bodyReads = 0 /\ verifyCalls = 0
       /\ pc \in {"handleRequest", "done"}
       /\ pc = "done" =>
             IF AnyBindingAbsent
             THEN response.state = "fulfilled" /\ response.value.status = 500
             ELSE Answered(404, << "Not Found" >>)

\* C16 witness: with the configuration complete, a request to another path
\* that carries the manual trigger token has been answered.
C16_Witness ==
    /\ pc = "done" /\ request.pathname = OtherPath
    /\ ~AnyBindingAbsent
    /\ request.token = Token

\* verifySignature has run and got as far as the hash computation: the
\* header is present and has a ", " separator, its timestamp is not an
\* integer outside the window, and the secret is not empty
ReachedHash ==
    /\ verifyCalls > 0
    /\ ~MalformedHeader(request.signature)
    /\ ~(IntegerTimestampHeader(request.signature)
            /\ Abs(now - HeaderTimestamp(request.signature)) > 300000)
    /\ env["GHOST_WEBHOOK_SECRET"] # << >>

\* C17: the request body is read at most once; exactly once when
\* verifySignature reaches the hash computation; not at all when the manual
\* trigger token matches, when the signature header is absent, when the
\* timestamp is outside the replay window, or when the secret is empty.
C17_BodyReadOnce ==
    /\ bodyReads <= 1
    /\ ReachedHash => bodyReads = 1
    /\ (pc # "idle" /\ HasBypassToken) => bodyReads = 0
    /\ (pc # "idle" /\ request.signature = Null) => bodyReads = 0
    /\ (verifyCalls > 0 /\ IntegerTimestampHeader(request.signature)
           /\ Abs(now - HeaderTimestamp(request.signature)) > 300000)
          => bodyReads = 0
    /\ env["GHOST_WEBHOOK_SECRET"] = << >> => bodyReads = 0

\* C17 witness: verifySignature computed the hash of a fresh, correctly
\* signed request, which has been handled to its end.
C17_Witness ==
    /\ ReachedHash /\ bodyReads = 1 /\ pc = "done"
    /\ request.signature = SignedHeader(Secret, request.body, ToDecimal(1000000))

\* C18: once the listing has returned N folders there is exactly one delete
\* call for each listed folder, in every later state, whatever the other
\* deletions do: none skipped, none repeated, none added.
C18_OneDeletePerFolder ==
    ListedOk =>
       /\ Len(deleteCalls) = Len(folders)
       /\ Len(deletePromises) = Len(folders)
       /\ \A i \in 1..Len(folders) : deleteCalls[i] = folders[i].ObjectName
       /\ Cardinality({deleteCalls[i] : i \in 1..Len(deleteCalls)}) = Len(folders)

\* C18 witness: of three deletions the first raised and the second returned
\* a non-success status, and there are three delete calls.
C18_Witness ==
    /\ ListedOk /\ Len(folders) = 3 /\ Len(deleteCalls) = 3
    /\ deletePromises[1] = "rejected" /\ deletePromises[2] = "false"

\* C19: when the purge succeeded and the listing returned no folder, no
\* delete call is issued, the cleanup result is the tally 0 / 0 / 0, and the
\* response is 200 with that tally.
C19_EmptyListing ==
    (ListedOk /\ folders = << >>) =>
       /\ deleteCalls = << >>
       /\ pc = "done"
       /\ cleanupResult.type = "string"
       /\ cleanupResult.str =
             << "Cleanup completed. ", "Total folders: ", "0", ", Deleted: ", "0",
                ", Failed: ", "0" >>
       /\ Answered(200,
             << "Full cache purge initiated successfully. ", "Cleanup result: ",
                "Cleanup completed. ", "Total folders: ", "0", ", Deleted: ", "0",
                ", Failed: ", "0" >>)

\* C19 witness: the listing of an authorized request returned no folder.
C19_Witness ==
    ListedOk /\ folders = << >> /\ purge.state = "settled" /\ Ok(purge)

\* C20: a response with status 200 exists only for a request whose manual
\* trigger token matched or for which verifySignature returned true, and
\* whose purge call was issued exactly once and returned a success status.
\* (Stated as the claim states it; the code violates it.)
C20_Only200WhenAuthorized ==
    (response.state = "fulfilled" /\ response.value.status = 200)
    => /\ HasBypassToken \/ (isValid.type = "boolean" /\ isValid.val)
       /\ purgeCalls = 1
       /\ purge.state = "settled" /\ Ok(purge)

\* C21: whenever no call raises, the concurrent cleanup of worker.js and the
\* sequential loop of the legacy variant agree: once the listing has returned
\* its folders and every deletion has settled with a status, in whatever
\* order, the legacy loop run on the same listing with the same status for
\* each folder issues the same set of DELETE calls, one per call of the
\* concurrent cleanup, and returns the same string
\* "Cleanup completed. Total folders: N, Deleted: D, Failed: F".
C21_Case ==
    /\ ListedOk
    /\ \A i \in 1..Len(deletePromises) : deletePromises[i] \in {"true", "false"}

C21_Statuses ==
    { outs \in [1..Len(deletePromises) -> {o \in FetchOutcomes : ~o.raised}] :
        \A i \in 1..Len(deletePromises) :
           Ok(outs[i]) <=> (deletePromises[i] = "true") }

C21_ConcurrentEqualsSequential ==
    C21_Case =>
      /\ C21_Statuses # {}
      /\ \A outs \in C21_Statuses :
           LET legacy == LegacyCleanup(list, folders, outs)
           IN /\ legacy.result = cleanupResult
              /\ Len(legacy.calls) = Len(deleteCalls)
              /\ {legacy.calls[i] : i \in 1..Len(legacy.calls)}
                   = {deleteCalls[i] : i \in 1..Len(deleteCalls)}
              /\ IndexOf(legacy.result.str, << "Total folders: " >>, 1) > 0

\* C21 witness: three folders listed, the deletions of the first and the
\* last answered with a non-success status, and all three settled.
C21_Witness ==
    /\ C21_Case
    /\ deletePromises = << "false", "true", "false" >>
    /\ pc = "done"

====
